---- MODULE Spec2Model ----
(***************************************************************************)
(* A model of nkAzureBlobber.py: MSALTokenCredential (get_token) and        *)
(* AzureBlobContainerClient (check_container_name, read, read_text, write, *)
(* upload_file, update, delete, list_blobs, exists).                       *)
(*                                                                         *)
(* The blob service and the identity provider are the program's external   *)
(* collaborators.  The service is a map from container and blob name to    *)
(* the stored bytes; one SDK call on a blob client is one request.  The     *)
(* identity provider is the call self._app.acquire_token_for_client of     *)
(* get_token: one call is one identity-provider request.                   *)
(*                                                                         *)
(* Three specifications share the variables:                               *)
(*   Spec      one caller, every handler one atomic call;                  *)
(*   SpecConc  two callers sharing the client, one step per source line    *)
(*             that reads or writes the client's fields;                   *)
(*   SpecTok   two callers of get_token and a clock.                       *)
(***************************************************************************)
EXTENDS Integers, Sequences, FiniteSets, TLC

VARIABLES
    container_name,  \* self.container_name
    container,       \* self._container: the container the handle points at
    store,           \* the blob service: container -> blob name -> bytes
    ret,             \* Spec: the result handed to the caller, not yet taken
    track,           \* Spec, history: a successful write whose blob has not
                     \* been written or deleted since
    authFailed,      \* Spec, history: the latest token request failed
    callers,         \* SpecConc: each caller's position and locals
    now,             \* SpecTok: time.time(), in seconds
    idpRequests,     \* SpecTok: calls of acquire_token_for_client so far
    cur,             \* SpecTok, history: the token returned most recently
    tcalls           \* SpecTok: each caller's position in get_token

vars == <<container_name, container, store, ret, track, authFailed,
          callers, now, idpRequests, cur, tcalls>>

(***************************************************************************)
(* Values                                                                  *)
(***************************************************************************)
None == "None"

\* The containers of the storage account.
Containers == {"A", "B"}

\* Blob names, as sequences of characters: "a/b" and "c".
Names == {<<1, 2>>, <<3>>}

\* The order in which the service lists blobs (by name).
NameOrder == << <<1, 2>>, <<3>> >>

\* name_starts_with: "" and "a".
Prefixes == {<<>>, <<1>>}

\* A blob that does not exist (no byte is negative).
Absent == <<-1>>

\* Payloads: Python str values, as sequences of code points ("A" followed by
\* "e-acute", and the euro sign), and a bytes value (0xFF, which is not UTF-8).
StringPayloads == {<<65, 233>>, <<8364>>}

BytePayloads == {<<255>>}

Payloads ==
    [kind : {"str"}, v : StringPayloads] \cup [kind : {"bytes"}, v : BytePayloads]

(***************************************************************************)
(* str.encode("utf-8") and bytes.decode("utf-8"), for code points below    *)
(* 65536.                                                                  *)
(***************************************************************************)
EncodeChar(cp) ==
    IF cp < 128 THEN <<cp>>
    ELSE IF cp < 2048 THEN <<192 + (cp \div 64), 128 + (cp % 64)>>
    ELSE <<224 + (cp \div 4096), 128 + ((cp \div 64) % 64), 128 + (cp % 64)>>

RECURSIVE EncodeLatin1(_)
EncodeLatin1(s) ==
    IF s = <<>> THEN <<>> ELSE <<Head(s) % 256>> \o EncodeLatin1(Tail(s))

RECURSIVE Encode(_)
Encode(s) ==
    IF s = <<>> THEN <<>> ELSE EncodeChar(Head(s)) \o Encode(Tail(s))

IsCont(b) == b >= 128 /\ b <= 191

\* [ok, text]: ok is FALSE where Python raises UnicodeDecodeError.
RECURSIVE Decode(_)
Decode(b) ==
    IF b = <<>> THEN [ok |-> TRUE, text |-> <<>>]
    ELSE LET b0 == Head(b)
             n  == IF b0 < 128 THEN 1
                   ELSE IF b0 >= 194 /\ b0 <= 223 THEN 2
                   ELSE IF b0 >= 224 /\ b0 <= 239 THEN 3
                   ELSE 0
         IN IF n = 0 \/ Len(b) < n THEN [ok |-> FALSE, text |-> <<>>]
            ELSE LET cp == IF n = 1 THEN b0
                           ELSE IF n = 2 THEN (b0 - 192) * 64 + (b[2] - 128)
                           ELSE (b0 - 224) * 4096 + (b[2] - 128) * 64 + (b[3] - 128)
                     good == /\ \A i \in 2..n : IsCont(b[i])
                             /\ (n = 3 => cp >= 2048 /\ ~(cp >= 55296 /\ cp <= 57343))
                     rest == Decode(SubSeq(b, n + 1, Len(b)))
                 IN IF good /\ rest.ok
                    THEN [ok |-> TRUE, text |-> <<cp>> \o rest.text]
                    ELSE [ok |-> FALSE, text |-> <<>>]

(***************************************************************************)
(* The blob service, as the SDK calls of the handlers reach it.  A call on *)
(* no container (a None handle) is Python's AttributeError.                *)
(***************************************************************************)
StartsWith(name, prefix) ==
    Len(prefix) <= Len(name) /\ SubSeq(name, 1, Len(prefix)) = prefix

\* blob_client.download_blob().readall()
download_blob(st, c, n) ==
    IF c \notin Containers THEN [err |-> "AttributeError", bytes |-> <<>>]
    ELSE IF st[c][n] = Absent THEN [err |-> "NotFound", bytes |-> <<>>]
    ELSE [err |-> "ok", bytes |-> st[c][n]]

upload_blob_always(st, c, n, data, overwrite) ==
    IF c \notin Containers THEN [err |-> "AttributeError", store |-> st]
    ELSE [err |-> "ok", store |-> [st EXCEPT ![c][n] = data]]

\* blob_client.upload_blob(data, overwrite=overwrite): one conditional PUT.
upload_blob(st, c, n, data, overwrite) ==
    IF c \notin Containers THEN [err |-> "AttributeError", store |-> st]
    ELSE IF ~overwrite /\ st[c][n] # Absent
    THEN [err |-> "AlreadyExists", store |-> st]
    ELSE [err |-> "ok", store |-> [st EXCEPT ![c][n] = data]]

\* blob_client.delete_blob()
delete_blob(st, c, n) ==
    IF c \notin Containers THEN [err |-> "AttributeError", store |-> st]
    ELSE IF st[c][n] = Absent THEN [err |-> "NotFound", store |-> st]
    ELSE [err |-> "ok", store |-> [st EXCEPT ![c][n] = Absent]]

\* blob_client.exists()
blob_exists(st, c, n) ==
    IF c \notin Containers THEN [err |-> "AttributeError", flag |-> FALSE]
    ELSE [err |-> "ok", flag |-> st[c][n] # Absent]

container_list_blobs_skip(st, c, prefix) ==
    IF c \notin Containers THEN [err |-> "AttributeError", names |-> <<>>]
    ELSE LET all == SelectSeq(NameOrder,
                        LAMBDA n : st[c][n] # Absent /\ StartsWith(n, prefix))
         IN [err |-> "ok", names |-> IF all = <<>> THEN <<>> ELSE Tail(all)]

\* self._container.list_blobs(name_starts_with=...): the names, in order.
container_list_blobs(st, c, prefix) ==
    IF c \notin Containers THEN [err |-> "AttributeError", names |-> <<>>]
    ELSE [err |-> "ok",
          names |-> SelectSeq(NameOrder,
                        LAMBDA n : st[c][n] # Absent /\ StartsWith(n, prefix))]

(***************************************************************************)
(* MSALTokenCredential.get_token                                           *)
(***************************************************************************)
\* result.get("expires_in", 3600)
DefaultExpiresIn == 3600

\* A key the identity provider's response does not hold.
Missing == -1

\* What acquire_token_for_client returns: a token, an error response of the
\* provider, or a response with neither.  The token's value names the request
\* that produced it.
IdpResult(kind, value, lifetime) ==
    [access_token |-> IF kind = "granted" THEN value ELSE Missing,
     expires_in   |-> IF kind = "granted" THEN lifetime ELSE Missing,
     error        |-> kind = "rejected"]

get_token_unchecked(result, t) ==
    [err |-> "ok", token |-> result.access_token,
     expires_on |-> t + (IF result.expires_in = Missing
                         THEN DefaultExpiresIn ELSE result.expires_in)]

\* Lines 47-53, on the result of line 46 and the time.time() of line 52.
get_token(result, t) ==
    IF result.access_token = Missing
    THEN [err |-> "AuthFailure", token |-> Missing, expires_on |-> Missing]
    ELSE [err |-> "ok", token |-> result.access_token,
          expires_on |-> t + (IF result.expires_in = Missing
                              THEN DefaultExpiresIn ELSE result.expires_in)]

\* What the SDK's pipeline does with the credential the constructor gave it,
\* before it sends a request: it holds a token already ("cached"), or it calls
\* credential.get_token, which calls the identity provider once.
AuthInputs == {"cached", "granted", "rejected", "malformed"}

\* [err, resp, idp]: resp is the provider's response to the call ("none": no
\* call of get_token), idp the identity-provider requests made.
Authorize(auth) ==
    IF auth = "cached" THEN [err |-> "ok", resp |-> "none", idp |-> 0]
    ELSE [err  |-> get_token(IdpResult(auth, 1, Missing), now).err,
          resp |-> auth,
          idp  |-> 1]

(***************************************************************************)
(* AzureBlobContainerClient                                                *)
(***************************************************************************)
\* The values a caller passes as container_name.
Overrides == {None, ""} \cup Containers

\* self._client.get_container_client(name): no request; the SDK raises
\* ValueError on an empty name.
get_container_client(name) ==
    IF name = "" THEN [err |-> "ConfigError", handle |-> None]
    ELSE [err |-> "ok", handle |-> name]

check_container_name_unchecked(cname, cont, cn) ==
    IF cn # None
    THEN LET g == get_container_client(cn)
         IN IF g.err # "ok" THEN [name |-> cn, handle |-> cont, err |-> g.err]
            ELSE [name |-> cn, handle |-> g.handle, err |-> "ok"]
    ELSE [name |-> cname, handle |-> cont, err |-> "ok"]

\* The client's fields after the call, and the error it raised.
check_container_name(cname, cont, cn) ==
    IF cn # None
    THEN LET g == get_container_client(cn)
         IN IF g.err # "ok" THEN [name |-> cn, handle |-> cont, err |-> g.err]
            ELSE [name |-> cn, handle |-> g.handle, err |-> "ok"]
    ELSE IF cont = None THEN [name |-> cname, handle |-> cont, err |-> "ConfigError"]
    ELSE [name |-> cname, handle |-> cont, err |-> "ok"]

\* The outcome of a handler: the client's fields and the store after it, the
\* container its request went to (None: no request), what it raised or
\* returned, and the token requests it made.
Out(name, handle, st) ==
    [name |-> name, handle |-> handle, store |-> st, target |-> None,
     res |-> "ok", resp |-> "none", idp |-> 0,
     bytes |-> <<>>, text |-> <<>>, names |-> <<>>, infos |-> <<>>,
     flag |-> FALSE]

\* check_container_name, then the token the pipeline needs for the request.
Prepare(cname, cont, st, cn, auth) ==
    LET chk == check_container_name(cname, cont, cn)
        o   == Out(chk.name, chk.handle, st)
    IN IF chk.err # "ok" THEN [o EXCEPT !.res = chk.err]
       ELSE LET a == Authorize(auth)
            IN [o EXCEPT !.resp = a.resp, !.idp = a.idp, !.res = a.err]

read(cname, cont, st, blob_name, cn, auth) ==
    LET o == Prepare(cname, cont, st, cn, auth)
    IN IF o.res # "ok" THEN o
       ELSE LET d == download_blob(st, o.handle, blob_name)
            IN [o EXCEPT !.target = o.handle, !.res = d.err, !.bytes = d.bytes]

read_text(cname, cont, st, blob_name, auth) ==
    LET o == read(cname, cont, st, blob_name, None, auth)
    IN IF o.res # "ok" THEN o
       ELSE LET t == Decode(o.bytes)
            IN IF t.ok THEN [o EXCEPT !.text = t.text]
               ELSE [o EXCEPT !.res = "DecodeError"]

write(cname, cont, st, blob_name, data, overwrite, cn, auth) ==
    LET o == Prepare(cname, cont, st, cn, auth)
        b == IF data.kind = "str" THEN Encode(data.v) ELSE data.v
    IN IF o.res # "ok" THEN o
       ELSE LET u == upload_blob(st, o.handle, blob_name, b, overwrite)
            IN [o EXCEPT !.target = o.handle, !.res = u.err, !.store = u.store]

\* readable: open(local_path, "rb") succeeds; content: what f.read() returns.
upload_file(cname, cont, st, blob_name, readable, content, overwrite, auth) ==
    IF ~readable THEN [Out(cname, cont, st) EXCEPT !.res = "IOFailure"]
    ELSE write(cname, cont, st, blob_name,
               [kind |-> "bytes", v |-> content], overwrite, None, auth)

update(cname, cont, st, blob_name, data, auth) ==
    write(cname, cont, st, blob_name, data, TRUE, None, auth)

delete(cname, cont, st, blob_name, cn, auth) ==
    LET o == Prepare(cname, cont, st, cn, auth)
    IN IF o.res # "ok" THEN o
       ELSE LET d == delete_blob(st, o.handle, blob_name)
            IN [o EXCEPT !.target = o.handle, !.res = d.err, !.store = d.store]

\* BlobInfo(name=b.name, container_name=self.container_name, size=b.size)
BlobInfo(name, cname, size) ==
    [name |-> name, container_name |-> cname, size |-> size]

list_blobs(cname, cont, st, name_starts_with, include_properties, cn, auth) ==
    LET o == Prepare(cname, cont, st, cn, auth)
    IN IF o.res # "ok" THEN o
       ELSE LET l == container_list_blobs(st, o.handle, name_starts_with)
            IN IF l.err # "ok" THEN [o EXCEPT !.target = o.handle, !.res = l.err]
               ELSE IF ~include_properties
               THEN [o EXCEPT !.target = o.handle, !.names = l.names]
               ELSE [o EXCEPT !.target = o.handle,
                       !.infos = [i \in 1..Len(l.names) |->
                                    BlobInfo(l.names[i], o.name,
                                             Len(st[o.handle][l.names[i]]))]]

exists(cname, cont, st, blob_name, cn, auth) ==
    LET o == Prepare(cname, cont, st, cn, auth)
    IN IF o.res # "ok" THEN o
       ELSE LET e == blob_exists(st, o.handle, blob_name)
            IN [o EXCEPT !.target = o.handle, !.res = e.err, !.flag = e.flag]

(***************************************************************************)
(* Spec: one caller.  A call runs its handler to the end and hands the     *)
(* result to the caller; the caller takes it before the next call.         *)
(***************************************************************************)
NoRet ==
    [op |-> "none", n |-> <<>>, cn |-> None, prefix |-> <<>>, props |-> FALSE,
     readable |-> TRUE, target |-> None, res |-> "none", resp |-> "none",
     idp |-> 0, afterFail |-> FALSE, bytes |-> <<>>, text |-> <<>>, names |-> <<>>,
     infos |-> <<>>, flag |-> FALSE]

NoTrack == [c |-> None, n |-> <<>>, p |-> [kind |-> "none", v |-> <<>>]]

\* A caller of SpecConc before its call.
IdleCaller ==
    [pc |-> "idle", op |-> "none", n |-> <<>>, cn |-> None, data |-> <<>>,
     ow |-> TRUE, props |-> FALSE, h |-> None, target |-> None,
     res |-> "none", pre |-> Absent, items |-> <<>>, names |-> <<>>,
     infos |-> <<>>, bytes |-> <<>>, flag |-> FALSE]

NoToken == [token |-> Missing, expires_on |-> Missing]

IdleTokenCall ==
    [pc |-> "idle", at |-> 0, prev |-> NoToken, hits |-> 0,
     result |-> IdpResult("malformed", Missing, Missing),
     err |-> "none", token |-> Missing, expires_on |-> Missing]

Callers == {1, 2}

\* AzureBlobContainerClient(account_url, container_name=...): the credentials
\* are given, the default container is None or a container's name.
ClientInit ==
    /\ container_name \in {None} \cup Containers
    /\ container = container_name

\* The client after its construction, on an account whose containers hold
\* no blob; no concurrent caller, no caller of get_token.
Init ==
    /\ ClientInit
    /\ store = [c \in Containers |-> [n \in Names |-> Absent]]
    /\ ret = NoRet
    /\ track = NoTrack
    /\ authFailed = FALSE
    /\ callers = <<>>
    /\ now = 0
    /\ idpRequests = 0
    /\ cur = NoToken
    /\ tcalls = <<>>

\* The arguments of a call, as the result records them.
Call(op, n, cn) ==
    [op |-> op, n |-> n, cn |-> cn, prefix |-> <<>>, props |-> FALSE,
     readable |-> TRUE]

\* The handler's outcome o becomes the state; trk is the write tracked next.
Deliver(call, o, trk) ==
    /\ container_name' = o.name
    /\ container' = o.handle
    /\ store' = o.store
    /\ ret' = [op |-> call.op, n |-> call.n, cn |-> call.cn,
               prefix |-> call.prefix, props |-> call.props,
               readable |-> call.readable,
               target |-> o.target, res |-> o.res, resp |-> o.resp,
               idp |-> o.idp, afterFail |-> authFailed, bytes |-> o.bytes,
               text |-> o.text, names |-> o.names, infos |-> o.infos,
               flag |-> o.flag]
    /\ authFailed' = IF o.resp # "none" THEN o.res = "AuthFailure" ELSE authFailed
    /\ track' = trk
    /\ UNCHANGED <<callers, now, idpRequests, cur, tcalls>>

\* After a write that stored payload p as blob n: it may be the tracked write;
\* a tracked write of another blob may stay.
TrackAfterWrite(o, n, p) ==
    IF o.res # "ok" \/ o.target = None THEN {track}
    ELSE {[c |-> o.target, n |-> n, p |-> p]}
         \cup (IF track # NoTrack /\ <<track.c, track.n>> # <<o.target, n>>
               THEN {track} ELSE {})

TrackAfterDelete(o, n) ==
    IF o.res = "ok" /\ track.c = o.target /\ track.n = n THEN NoTrack ELSE track

CallRead ==
    /\ ret = NoRet
    /\ \E n \in Names, cn \in Overrides, auth \in AuthInputs :
           \E o \in {read(container_name, container, store, n, cn, auth)} :
            Deliver(Call("read", n, cn), o, track)

CallReadText ==
    /\ ret = NoRet
    /\ \E n \in Names, auth \in AuthInputs :
           \E o \in {read_text(container_name, container, store, n, auth)} :
            Deliver(Call("read_text", n, None), o, track)

CallWrite ==
    /\ ret = NoRet
    /\ \E n \in Names, p \in Payloads, ow \in BOOLEAN, cn \in Overrides,
          auth \in AuthInputs :
        \E o \in {write(container_name, container, store, n, p, ow, cn, auth)} :
           \E trk \in TrackAfterWrite(o, n, p) :
               Deliver(Call("write", n, cn), o, trk)

CallUploadFile ==
    /\ ret = NoRet
    /\ \E n \in Names, readable \in BOOLEAN, content \in BytePayloads,
          ow \in BOOLEAN, auth \in AuthInputs :
        \E o \in {upload_file(container_name, container, store, n, readable,
                             content, ow, auth)} :
           \E trk \in TrackAfterWrite(o, n, [kind |-> "bytes", v |-> content]) :
               Deliver([Call("upload_file", n, None) EXCEPT !.readable = readable],
                       o, trk)

CallUpdate ==
    /\ ret = NoRet
    /\ \E n \in Names, p \in Payloads, auth \in AuthInputs :
           \E o \in {update(container_name, container, store, n, p, auth)} :
           \E trk \in TrackAfterWrite(o, n, p) :
               Deliver(Call("update", n, None), o, trk)

CallDelete ==
    /\ ret = NoRet
    /\ \E n \in Names, cn \in Overrides, auth \in AuthInputs :
           \E o \in {delete(container_name, container, store, n, cn, auth)} :
           Deliver(Call("delete", n, cn), o, TrackAfterDelete(o, n))

CallListBlobs ==
    /\ ret = NoRet
    /\ \E prefix \in Prefixes, props \in BOOLEAN, cn \in Overrides,
          auth \in AuthInputs :
        \E o \in {list_blobs(container_name, container, store, prefix, props,
                            cn, auth)} :
            Deliver([Call("list_blobs", <<>>, cn) EXCEPT !.prefix = prefix,
                                                      !.props = props],
                    o, track)

CallExists ==
    /\ ret = NoRet
    /\ \E n \in Names, cn \in Overrides, auth \in AuthInputs :
           \E o \in {exists(container_name, container, store, n, cn, auth)} :
            Deliver(Call("exists", n, cn), o, track)

\* The caller takes the result (or catches the exception).
Return ==
    /\ ret # NoRet
    /\ ret' = NoRet
    /\ UNCHANGED <<container_name, container, store, track, authFailed,
                   callers, now, idpRequests, cur, tcalls>>

Next ==
    \/ CallRead
    \/ CallReadText
    \/ CallWrite
    \/ CallUploadFile
    \/ CallUpdate
    \/ CallDelete
    \/ CallListBlobs
    \/ CallExists
    \/ Return

Spec == Init /\ [][Next]_vars

(***************************************************************************)
(* SpecConc: two callers share one client and each makes one call of a     *)
(* handler that takes container_name.  A step is one source line that      *)
(* reads or writes self.container_name or self._container, or one request. *)
(* The pipeline holds a token (no call of get_token).                      *)
(***************************************************************************)
\* The one blob the callers of SpecConc name, and what they write.
ConcName == <<1, 2>>

ConcContents == {<<65>>, <<255>>}

ConcOverrides == {None} \cup Containers

ConcCalls ==
    [op : {"read", "delete", "exists"}, cn : ConcOverrides,
     data : {<<>>}, ow : {TRUE}, props : {FALSE}]
    \cup [op : {"write"}, cn : ConcOverrides,
          data : ConcContents, ow : BOOLEAN, props : {FALSE}]
    \cup [op : {"list_blobs"}, cn : ConcOverrides,
          data : {<<>>}, ow : {TRUE}, props : BOOLEAN]

InitConc ==
    /\ ClientInit
    /\ store \in [Containers ->
                    {[n \in Names |-> IF n = ConcName THEN b ELSE Absent] :
                        b \in {Absent} \cup ConcContents}]
    /\ ret = NoRet
    /\ track = NoTrack
    /\ authFailed = FALSE
    /\ callers = [t \in Callers |-> IdleCaller]
    /\ now = 0
    /\ idpRequests = 0
    /\ cur = NoToken
    /\ tcalls = <<>>

ConcFrame == UNCHANGED <<ret, track, authFailed, now, idpRequests, cur, tcalls>>

\* The caller's call ends: it raised or returned res.
Done(t, res) == [callers EXCEPT ![t].pc = "done", ![t].res = res]

\* A caller calls a handler; data is the payload after line 115-116.
Invoke(t) ==
    /\ callers[t].pc = "idle"
    /\ \E call \in ConcCalls :
           callers' = [callers EXCEPT ![t].pc = "l94", ![t].op = call.op,
                         ![t].n = ConcName, ![t].cn = call.cn,
                         ![t].data = call.data, ![t].ow = call.ow,
                         ![t].props = call.props]
    /\ UNCHANGED <<container_name, container, store>>
    /\ ConcFrame

\* check_container_name, lines 94-95.
SetName(t) ==
    /\ callers[t].pc = "l94"
    /\ IF callers[t].cn # None
       THEN /\ container_name' = callers[t].cn
            /\ callers' = [callers EXCEPT ![t].pc = "l96"]
       ELSE /\ container_name' = container_name
            /\ callers' = [callers EXCEPT ![t].pc = "l97"]
    /\ UNCHANGED <<container, store>>
    /\ ConcFrame

\* check_container_name, line 96.
SetHandle(t) ==
    /\ callers[t].pc = "l96"
    /\ \E g \in {get_container_client(callers[t].cn)} :
           IF g.err # "ok"
           THEN /\ callers' = Done(t, g.err)
                /\ UNCHANGED container
           ELSE /\ container' = g.handle
                /\ callers' = [callers EXCEPT ![t].pc = "l97"]
    /\ UNCHANGED <<container_name, store>>
    /\ ConcFrame

\* check_container_name, lines 97-98.
Check(t) ==
    /\ callers[t].pc = "l97"
    /\ callers' = IF container = None THEN Done(t, "ConfigError")
                  ELSE [callers EXCEPT ![t].pc = "use"]
    /\ UNCHANGED <<container_name, container, store>>
    /\ ConcFrame

\* The handler reads self._container (lines 105, 117, 132, 148, 150, 175).
Fetch(t) ==
    /\ callers[t].pc = "use"
    /\ callers' = [callers EXCEPT ![t].pc = "req", ![t].h = container]
    /\ UNCHANGED <<container_name, container, store>>
    /\ ConcFrame

\* The request of the handler, on the container it read; pre is the blob
\* before the request.
Request(t) ==
    /\ callers[t].pc = "req"
    /\ \E c \in {callers[t]} :
         \E me \in {[c EXCEPT !.target = c.h, !.pre = store[c.h][c.n]]} :
           CASE c.op = "read" ->
                  \E d \in {download_blob(store, c.h, c.n)} :
                      /\ callers' = [callers EXCEPT ![t] =
                             [me EXCEPT !.pc = "done", !.res = d.err,
                                        !.bytes = d.bytes]]
                      /\ store' = store
             [] c.op = "write" ->
                  \E u \in {upload_blob(store, c.h, c.n, c.data, c.ow)} :
                      /\ callers' = [callers EXCEPT ![t] =
                             [me EXCEPT !.pc = "done", !.res = u.err]]
                      /\ store' = u.store
             [] c.op = "delete" ->
                  \E d \in {delete_blob(store, c.h, c.n)} :
                      /\ callers' = [callers EXCEPT ![t] =
                             [me EXCEPT !.pc = "done", !.res = d.err]]
                      /\ store' = d.store
             [] c.op = "exists" ->
                  \E e \in {blob_exists(store, c.h, c.n)} :
                      /\ callers' = [callers EXCEPT ![t] =
                             [me EXCEPT !.pc = "done", !.res = e.err,
                                        !.flag = e.flag]]
                      /\ store' = store
             [] c.op = "list_blobs" ->
                  \E l \in {container_list_blobs(store, c.h, <<>>)} :
                      /\ callers' = [callers EXCEPT ![t] =
                             IF c.props
                             THEN [me EXCEPT !.pc = "loop", !.res = l.err,
                                     !.items = [i \in 1..Len(l.names) |->
                                         [name |-> l.names[i],
                                          size |-> Len(store[c.h][l.names[i]])]]]
                             ELSE [me EXCEPT !.pc = "done", !.res = l.err,
                                             !.names = l.names]]
                      /\ store' = store
    /\ UNCHANGED <<container_name, container>>
    /\ ConcFrame

\* list_blobs, lines 150-166: one BlobInfo per listed blob, each reading
\* self.container_name.
LoopItem(t) ==
    /\ callers[t].pc = "loop"
    /\ callers' =
         IF callers[t].items = <<>> THEN [callers EXCEPT ![t].pc = "done"]
         ELSE [callers EXCEPT
                 ![t].items = Tail(@),
                 ![t].infos = Append(@, BlobInfo(Head(callers[t].items).name,
                                                 container_name,
                                                 Head(callers[t].items).size))]
    /\ UNCHANGED <<container_name, container, store>>
    /\ ConcFrame

NextConc ==
    \E t \in Callers :
        \/ Invoke(t)
        \/ SetName(t)
        \/ SetHandle(t)
        \/ Check(t)
        \/ Fetch(t)
        \/ Request(t)
        \/ LoopItem(t)

SpecConc == InitConc /\ [][NextConc]_vars

(***************************************************************************)
(* SpecTok: two callers of MSALTokenCredential.get_token and a clock.      *)
(***************************************************************************)
\* The clock stops at MaxTime; at most MaxReq calls reach the provider.
MaxTime == 3

MaxReq == 3

\* The expires_in of a response (Missing: the response holds none).
Lifetimes == {Missing, 1, 2}

TokFrame ==
    UNCHANGED <<container_name, container, store, ret, track, authFailed,
                callers>>

\* Line 46: the call of acquire_token_for_client leaves for the provider.
TokRequest(t) ==
    /\ tcalls[t].pc \in {"idle", "done"}
    /\ idpRequests < MaxReq
    /\ idpRequests' = idpRequests + 1
    /\ tcalls' = [tcalls EXCEPT ![t] =
                    [IdleTokenCall EXCEPT !.pc = "requesting", !.at = now,
                                          !.prev = cur, !.hits = 1]]
    /\ UNCHANGED <<now, cur>>
    /\ TokFrame

\* Line 46: the provider's response arrives.
TokResponse(t) ==
    /\ tcalls[t].pc = "requesting"
    /\ \E kind \in {"granted", "rejected", "malformed"}, life \in Lifetimes :
           tcalls' = [tcalls EXCEPT ![t].pc = "got",
                        ![t].result = IdpResult(kind, idpRequests, life)]
    /\ UNCHANGED <<now, idpRequests, cur>>
    /\ TokFrame

\* Lines 47-53: the caller gets the token or the RuntimeError.
TokReturn(t) ==
    /\ tcalls[t].pc = "got"
    /\ \E g \in {get_token(tcalls[t].result, now)} :
           /\ tcalls' = [tcalls EXCEPT ![t].pc = "done", ![t].err = g.err,
                           ![t].token = g.token, ![t].expires_on = g.expires_on]
           /\ cur' = IF g.err = "ok"
                     THEN [token |-> g.token, expires_on |-> g.expires_on]
                     ELSE cur
    /\ UNCHANGED <<now, idpRequests>>
    /\ TokFrame

Tick ==
    /\ now < MaxTime
    /\ now' = now + 1
    /\ UNCHANGED <<idpRequests, cur, tcalls>>
    /\ TokFrame

NextTok ==
    \/ \E t \in Callers : TokRequest(t) \/ TokResponse(t) \/ TokReturn(t)
    \/ Tick

\* The credential of a constructed client; nobody has called get_token.
InitTok ==
    /\ container_name = None
    /\ container = None
    /\ store = [c \in Containers |-> [n \in Names |-> Absent]]
    /\ ret = NoRet
    /\ track = NoTrack
    /\ authFailed = FALSE
    /\ callers = <<>>
    /\ now = 0
    /\ idpRequests = 0
    /\ cur = NoToken
    /\ tcalls = [t \in Callers |-> IdleTokenCall]

SpecTok == InitTok /\ [][NextTok]_vars

(***************************************************************************)
(* The claims                                                              *)
(***************************************************************************)
\* A step of Spec that is a call of a handler: ret' is its result.
Called == ret = NoRet /\ ret' # NoRet

Present(st, c) == {n \in Names : st[c][n] # Absent}

SeqSet(s) == {s[i] : i \in 1..Len(s)}

\* The bytes of a payload, written out: the UTF-8 of the two str payloads.
Written(p) ==
    IF p.kind = "bytes" THEN p.v
    ELSE IF p.v = <<65, 233>> THEN <<65, 195, 169>>
    ELSE <<226, 130, 172>>

Other(t) == CHOOSE u \in Callers : u # t

\* C1 (as claimed): a call with a non-empty container_name C is carried out
\* against C and leaves C as the default; a call with no container_name or an
\* empty one leaves the default unchanged and is carried out against it.
C1_OverrideRule ==
    [][Called =>
         /\ ret'.cn \notin {None, ""} =>
                /\ ret'.target \in {None, ret'.cn}
                /\ container_name' = ret'.cn
                /\ container' = ret'.cn
         /\ ret'.cn \in {None, ""} =>
                /\ container_name' = container_name
                /\ container' = container
                /\ ret'.target \in {None, container}]_vars

\* C2 (as claimed): every data operation on a client with no default container
\* and no per-call container_name fails with a configuration error, issues no
\* request and leaves the store unchanged.
C2_NoContainerIsConfigError ==
    [][Called /\ container_name = None /\ container = None /\ ret'.cn = None =>
         /\ ret'.res = "ConfigError"
         /\ ret'.target = None
         /\ ret'.idp = 0
         /\ store' = store]_vars

\* C2 (amended): such an operation fails with a configuration error, except
\* upload_file of a local file that cannot be read, which fails with an I/O
\* error; either way no request is issued, no token is asked for, and the
\* store and the client are unchanged.
C2_NoContainerFails ==
    [][Called /\ container = None /\ ret'.cn = None =>
         /\ ret'.res = IF ret'.op = "upload_file" /\ ~ret'.readable
                       THEN "IOFailure" ELSE "ConfigError"
         /\ ret'.target = None
         /\ ret'.idp = 0
         /\ store' = store
         /\ container' = None
         /\ container_name' = container_name]_vars

C2_Witness ==
    /\ container_name = None
    /\ ret.op = "upload_file" /\ ret.readable
    /\ ret.cn = None
    /\ ret.res = "ConfigError"

\* C4: a read of a blob returns the bytes of the payload last written to it
\* (a str payload as UTF-8), and read_text returns a str payload itself, when
\* the blob was not written or deleted in between, whether or not the blob
\* existed before the write.
C4_RoundTrip ==
    (/\ track # NoTrack
     /\ ret.op \in {"read", "read_text"}
     /\ ret.target = track.c
     /\ ret.n = track.n)
    => /\ ret.op = "read" => ret.res = "ok" /\ ret.bytes = Written(track.p)
       /\ (ret.op = "read_text" /\ track.p.kind = "str")
              => ret.res = "ok" /\ ret.text = track.p.v

C4_Witness ==
    /\ track.p = [kind |-> "str", v |-> <<65, 233>>]
    /\ ret.op = "read_text"
    /\ ret.target = track.c
    /\ ret.n = track.n
    /\ ret.text = <<65, 233>>

\* C5: a successful write of a blob that was not in the container adds
\* exactly that name to the container's blobs, a write of one that was leaves
\* them as they were, a successful delete removes exactly that name, and
\* list_blobs() returns each blob of the container once, with or without
\* include_properties.
C5_ListingConsistency ==
    [][Called =>
         /\ (ret'.op \in {"write", "update", "upload_file"} /\ ret'.res = "ok") =>
                /\ Present(store', ret'.target) =
                       Present(store, ret'.target) \cup {ret'.n}
                /\ Cardinality(Present(store', ret'.target)) =
                       Cardinality(Present(store, ret'.target))
                       + (IF ret'.n \in Present(store, ret'.target) THEN 0 ELSE 1)
         /\ (ret'.op = "delete" /\ ret'.res = "ok") =>
                /\ ret'.n \in Present(store, ret'.target)
                /\ Present(store', ret'.target) =
                       Present(store, ret'.target) \ {ret'.n}
                /\ Cardinality(Present(store', ret'.target)) =
                       Cardinality(Present(store, ret'.target)) - 1
         /\ (ret'.op = "list_blobs" /\ ret'.res = "ok" /\ ret'.prefix = <<>>) =>
                LET listed == IF ret'.props
                              THEN [i \in 1..Len(ret'.infos) |-> ret'.infos[i].name]
                              ELSE ret'.names
                IN /\ SeqSet(listed) = Present(store', ret'.target)
                   /\ Len(listed) = Cardinality(Present(store', ret'.target))]_vars

C5_Witness ==
    /\ ret.op = "list_blobs"
    /\ ret.res = "ok"
    /\ ret.props
    /\ ret.prefix = <<>>
    /\ Len(ret.infos) = 2

\* C7: when the provider rejects the credentials or answers without a token,
\* the call that asked fails with AuthFailure, no request reaches the store
\* and the store is unchanged; a token request after a failed one calls the
\* provider again, and succeeds when the provider grants a token.
C7_AuthFailureAborts ==
    [][Called =>
         /\ ret'.resp \in {"rejected", "malformed"} =>
                /\ ret'.res = "AuthFailure"
                /\ ret'.idp = 1
                /\ ret'.target = None
                /\ store' = store
                /\ ret'.bytes = <<>> /\ ret'.text = <<>>
                /\ ret'.names = <<>> /\ ret'.infos = <<>> /\ ~ret'.flag
         /\ ret'.res = "AuthFailure" => ret'.resp \in {"rejected", "malformed"}
         /\ (authFailed /\ ret'.resp # "none") =>
                /\ ret'.idp = 1
                /\ ret'.resp = "granted" => ret'.res # "AuthFailure"]_vars

C7_Witness ==
    /\ ret.afterFail
    /\ ret.resp = "granted"
    /\ ret.idp = 1
    /\ ret.op = "read"
    /\ ret.res = "ok"

\* C8 (as claimed): a call with a container_name override that fails leaves
\* the client's default container name and handle as they were.
C8_FailureLeavesClient ==
    [][Called /\ ret'.cn \in Containers /\ ret'.res # "ok" =>
         /\ container_name' = container_name
         /\ container' = container]_vars

\* C6: a no-overwrite write succeeds exactly when the blob is absent at its
\* request; of two no-overwrite writes of one blob at most one succeeds; when
\* the blob was absent exactly one succeeds, the other fails with
\* AlreadyExists and the blob holds the payload of the one that succeeded;
\* when it was present both fail and it holds what it held.
C6_NoOverwriteConflict ==
    /\ \A t \in Callers :
           (/\ callers[t].pc = "done"
            /\ callers[t].op = "write"
            /\ ~callers[t].ow
            /\ callers[t].target # None)
           => /\ callers[t].res \in {"ok", "AlreadyExists"}
              /\ callers[t].res = "ok" <=> callers[t].pre = Absent
    /\ LET a == callers[1]
           b == callers[2]
       IN (/\ a.pc = "done" /\ b.pc = "done"
           /\ a.op = "write" /\ b.op = "write"
           /\ ~a.ow /\ ~b.ow
           /\ a.target # None /\ a.target = b.target)
          => /\ ~(a.res = "ok" /\ b.res = "ok")
             /\ a.res = "ok" =>
                    /\ b.res = "AlreadyExists"
                    /\ store[a.target][a.n] = a.data
             /\ b.res = "ok" =>
                    /\ a.res = "AlreadyExists"
                    /\ store[b.target][b.n] = b.data
             /\ (a.res # "ok" /\ b.res # "ok") =>
                    /\ a.pre = b.pre
                    /\ store[a.target][a.n] = a.pre

C6_Witness ==
    /\ callers[1].pc = "done" /\ callers[2].pc = "done"
    /\ callers[1].op = "write" /\ callers[2].op = "write"
    /\ ~callers[1].ow /\ ~callers[2].ow
    /\ callers[1].target = callers[2].target
    /\ callers[1].data # callers[2].data
    /\ callers[1].res = "AlreadyExists"
    /\ callers[2].res = "ok"
    /\ callers[1].pre = callers[2].data

\* C10 (as claimed): of two concurrent calls with the overrides A and B, each
\* is carried out against the container it was passed, and every BlobInfo of a
\* listing of A names A.
C10_OverrideIsolation ==
    \A t \in Callers :
        (/\ callers[t].cn \in Containers
         /\ callers[Other(t)].cn \in Containers
         /\ callers[Other(t)].cn # callers[t].cn)
        => /\ callers[t].target \in {None, callers[t].cn}
           /\ \A i \in 1..Len(callers[t].infos) :
                  callers[t].infos[i].container_name = callers[t].cn

\* C3 (as claimed): a token request made while the token returned last is
\* still valid makes no identity-provider request and returns that token; one
\* made after it expired makes exactly one, and the new token expires
\* strictly later.
C3_TokenReuse ==
    \A t \in Callers :
        (tcalls[t].pc = "done" /\ tcalls[t].prev # NoToken)
        => IF tcalls[t].at < tcalls[t].prev.expires_on
           THEN /\ tcalls[t].hits = 0
                /\ tcalls[t].token = tcalls[t].prev.token
           ELSE /\ tcalls[t].hits = 1
                /\ tcalls[t].err = "ok" =>
                       tcalls[t].expires_on > tcalls[t].prev.expires_on

\* C9 (as claimed): callers that need a token at the same time, with none
\* returned yet or the last one expired, make one identity-provider request
\* between them.
C9_SingleRefresh ==
    \A t \in Callers :
        (/\ tcalls[t].pc \in {"requesting", "got"}
         /\ tcalls[Other(t)].pc \in {"requesting", "got"}
         /\ tcalls[t].prev = tcalls[Other(t)].prev
         /\ (tcalls[t].prev = NoToken \/ tcalls[t].at >= tcalls[t].prev.expires_on))
        => tcalls[t].hits + tcalls[Other(t)].hits <= 1

====
